---- MODULE Spec2Model ----
(***************************************************************************)
(* relabuf: a release buffer between a pull source of items and a consumer *)
(* of batches (src/src/lib.rs).                                            *)
(*                                                                         *)
(* The model has one step per critical section of the state mutex and per  *)
(* channel operation.  RelaBuf::next takes the lock for is_ready, again     *)
(* for can_receive, again for add_item / set_err and again for consume, so *)
(* operations of Released handles (which lock the same mutex and may run   *)
(* on another thread of the runtime) interleave between those steps.       *)
(* The channel receive and the add_item / set_err that follows it have no  *)
(* suspension point between them and touch disjoint objects until the      *)
(* lock is taken, so they form one step.                                   *)
(*                                                                         *)
(* Time is counted in ticks; durations are small numbers of ticks.         *)
(* Items are the naturals 1, 2, ... in the order the source yields them.   *)
(***************************************************************************)
EXTENDS Integers, Sequences, FiniteSets

\* ---------------------------------------------------------------- bounds
\* The pull source yields at most NItems items before it reports its error.
NItems == 3

\* ------------------------------------------------------- configuration
\* RelaBufConfig (lib.rs 77-82) and ExponentialBackoff (lib.rs 35-50).
SoftCap == 2
HardCap == 2
ReleaseAfter == 2
InitialInterval == 1
Multiplier == 2
MaxInterval == 2
\* randomization_factor, in percent of the current interval
RandomizationPct == 0
\* current_interval of backoff::ExponentialBackoff::default(), which
\* State::new keeps through `..Default::default()` (lib.rs 106)
DefaultInterval == 2

\* Option<Duration>::None
NoneDur == -1

\* Elapsed times saturate here: no comparison of the code tells larger apart.
MaxEl == IF ReleaseAfter >= MaxInterval THEN ReleaseAfter ELSE MaxInterval

Drivers == {1, 2}
\* exactly one consumer drains the batch stream
Consumer == {1}

Min(a, b) == IF a <= b THEN a ELSE b
ItemsOf(s) == {s[k] : k \in DOMAIN s}
Occurrences(s, i) == Cardinality({k \in DOMAIN s : s[k] = i})

VARIABLES
    \* pull source and pull task (lib.rs 199-213)
    srcPos,          \* number of items the source has yielded
    pullPc,          \* "recv": awaiting recv(); "send": blocked in send_async; "done": exited, sender dropped
    pullItem,        \* the item held by the blocked send_async (0: none)
    relay,           \* the bounded channel's queue
    \* State (lib.rs 84-93)
    buffer,
    err,             \* err.is_some()
    nextBackoff,
    currentInterval, \* backoff.current_interval
    backoffOn,       \* backoff.is_some()
    elapsed,         \* last_ok_consume.elapsed()
    poisoned,        \* the mutex is poisoned by a panic under the lock
    \* RelaBuf::next, per call in progress
    pc,              \* "idle", "ready", "check", "poll", "consume"
    reason,          \* the reason is_ready returned
    outcome,         \* of the last call: "none", "released", "error", "panic"
    \* Released handles alive: [items, reason, elapsed, confirmed]
    handles,
    \* history
    done,            \* items of batches that were confirmed
    cleanTerm,       \* the terminal error was returned with no handle outstanding
    sinceReturn,     \* time since the return_on_err that armed next_backoff (-1: none pending)
    gateOK,          \* per call: the backoff gate was open at its is_ready
    stale,           \* per call: a handle operation changed the State since its is_ready
    streak,          \* consecutive return_on_err calls since the last confirm (capped)
    confirmedAfter,  \* the last confirm came after one or more consecutive return_on_err calls
    returned         \* unconfirmed items that return_on_err has put back at least once

vars == <<srcPos, pullPc, pullItem, relay, buffer, err, nextBackoff, currentInterval,
          backoffOn, elapsed, poisoned, pc, reason, outcome, handles, done,
          cleanTerm, sinceReturn, gateOK, stale, streak, confirmedAfter, returned>>

pullVars == <<srcPos, pullPc, pullItem, relay>>
stateVars == <<buffer, err, nextBackoff, currentInterval, elapsed>>
callVars == <<pc, reason, outcome>>
histVars == <<done, cleanTerm, sinceReturn, gateOK, stale, streak, confirmedAfter, returned>>

\* ------------------------------------------------------ State, pure parts

\* State::can_receive
can_receive(buf, e) == Len(buf) < SoftCap /\ ~e

\* the backoff gate of State::is_ready
GateOpen(nb, el) == nb = NoneDur \/ ~(el < nb)

\* is_ready without its first rule: an empty buffer is never ready
is_ready_EmptyNeverReady(buf, e, nb, el) ==
    IF buf = <<>> THEN "None"
    ELSE IF ~GateOpen(nb, el) THEN "None"
    ELSE IF e THEN "Term"
    ELSE IF Len(buf) >= SoftCap THEN "Size"
    ELSE IF el >= ReleaseAfter THEN "Time"
    ELSE "None"

\* State::is_ready
is_ready(buf, e, nb, el) ==
    IF buf = <<>>
    THEN (IF e THEN "Term" ELSE "None")
    ELSE IF ~GateOpen(nb, el) THEN "None"
    ELSE IF e THEN "Term"
    ELSE IF Len(buf) >= SoftCap THEN "Size"
    ELSE IF el >= ReleaseAfter THEN "Time"
    ELSE "None"

\* backoff: the interval after cur (multiplied, saturating at max_interval)
IncrementInterval(cur) ==
    IF cur * Multiplier >= MaxInterval THEN MaxInterval ELSE cur * Multiplier

\* backoff: the range around cur the randomized interval is drawn from
RandomizedIntervals(cur) ==
    LET delta == (RandomizationPct * cur) \div 100
    IN  (cur - delta) .. (cur + delta)

\* ------------------------------------------------------------------ Init

\* State::new with RelaBufConfig.backoff = Some(..), RelaBuf::new
Init ==
    /\ srcPos = 0
    /\ pullPc = "recv"
    /\ pullItem = 0
    /\ relay = <<>>
    /\ buffer = <<>>
    /\ err = FALSE
    /\ nextBackoff = NoneDur
    /\ currentInterval = DefaultInterval
    /\ backoffOn = TRUE
    /\ elapsed = 0
    /\ poisoned = FALSE
    /\ pc = [d \in Drivers |-> "idle"]
    /\ reason = [d \in Drivers |-> "None"]
    /\ outcome = [d \in Drivers |-> "none"]
    /\ handles = {}
    /\ done = {}
    /\ cleanTerm = FALSE
    /\ sinceReturn = -1
    /\ gateOK = [d \in Drivers |-> TRUE]
    /\ stale = [d \in Drivers |-> FALSE]
    /\ streak = 0
    /\ confirmedAfter = FALSE
    /\ returned = {}

\* ------------------------------------------------------------- pull task

\* a pull task that uses a non-blocking send and discards on a full queue
SourceYield_Discards ==
    /\ pullPc = "recv"
    /\ srcPos < NItems
    /\ srcPos' = srcPos + 1
    /\ relay' = IF Len(relay) < HardCap THEN Append(relay, srcPos + 1) ELSE relay
    /\ UNCHANGED <<pullPc, pullItem>>
    /\ UNCHANGED <<stateVars, backoffOn, poisoned, callVars, handles, histVars>>

\* recv() yields Ok(item); send_async enqueues it at once or blocks on a full queue
SourceYield ==
    /\ pullPc = "recv"
    /\ srcPos < NItems
    /\ srcPos' = srcPos + 1
    /\ IF Len(relay) < HardCap
       THEN relay' = Append(relay, srcPos + 1) /\ UNCHANGED <<pullPc, pullItem>>
       ELSE pullPc' = "send" /\ pullItem' = srcPos + 1 /\ UNCHANGED relay
    /\ UNCHANGED <<stateVars, backoffOn, poisoned, callVars, handles, histVars>>

\* the blocked send_async completes once the queue has room
SendUnblocked ==
    /\ pullPc = "send"
    /\ Len(relay) < HardCap
    /\ relay' = Append(relay, pullItem)
    /\ pullItem' = 0
    /\ pullPc' = "recv"
    /\ UNCHANGED <<srcPos, stateVars, backoffOn, poisoned, callVars, handles, histVars>>

\* recv() yields Err: the task breaks out of its loop and drops the sender
SourceError ==
    /\ pullPc = "recv"
    /\ pullPc' = "done"
    /\ UNCHANGED <<srcPos, pullItem, relay, stateVars, backoffOn, poisoned, callVars,
                   handles, histVars>>

\* ------------------------------------------------------------------ clock

Tick ==
    /\ elapsed' = Min(elapsed + 1, MaxEl)
    /\ sinceReturn' = IF sinceReturn < 0 THEN sinceReturn ELSE Min(sinceReturn + 1, MaxEl)
    /\ UNCHANGED <<pullVars, buffer, err, nextBackoff, currentInterval, backoffOn, poisoned,
                   callVars, handles, done, cleanTerm, gateOK, stale, streak, confirmedAfter,
                   returned>>

\* --------------------------------------------------------- RelaBuf::next

\* the consumer calls next() and awaits the future
Call(d) ==
    /\ pc[d] = "idle"
    /\ ~poisoned
    /\ pc' = [pc EXCEPT ![d] = "ready"]
    /\ outcome' = [outcome EXCEPT ![d] = "none"]
    /\ UNCHANGED <<pullVars, stateVars, backoffOn, poisoned, reason, handles, histVars>>

\* top of the loop: state.lock().unwrap().is_ready()
IsReady(d) ==
    /\ pc[d] = "ready"
    /\ ~poisoned
    /\ LET r == is_ready(buffer, err, nextBackoff, elapsed)
       IN  IF r # "None"
           THEN /\ reason' = [reason EXCEPT ![d] = r]
                /\ pc' = [pc EXCEPT ![d] = "consume"]
                /\ gateOK' = [gateOK EXCEPT ![d] = GateOpen(nextBackoff, elapsed)]
                /\ stale' = [stale EXCEPT ![d] = FALSE]
           ELSE /\ pc' = [pc EXCEPT ![d] = "check"]
                /\ UNCHANGED <<reason, gateOK, stale>>
    /\ UNCHANGED <<pullVars, stateVars, backoffOn, poisoned, outcome, handles, done,
                   cleanTerm, sinceReturn, streak, confirmedAfter, returned>>

\* state.lock().unwrap().can_receive(); the else branch awaits a future
\* that is ready at once, so the loop goes straight back to its top
CanReceive(d) ==
    /\ pc[d] = "check"
    /\ ~poisoned
    /\ pc' = [pc EXCEPT ![d] = IF can_receive(buffer, err) THEN "poll" ELSE "ready"]
    /\ UNCHANGED <<pullVars, stateVars, backoffOn, poisoned, reason, outcome, handles, histVars>>

\* add_item that puts the new item in front of the pending ones
RecvItem_Prepends(d) ==
    /\ pc[d] = "poll"
    /\ ~poisoned
    /\ relay # <<>>
    /\ relay' = Tail(relay)
    /\ buffer' = <<Head(relay)>> \o buffer
    /\ pc' = [pc EXCEPT ![d] = "ready"]
    /\ UNCHANGED <<srcPos, pullPc, pullItem, err, nextBackoff, currentInterval, elapsed,
                   backoffOn, poisoned, reason, outcome, handles, histVars>>

\* recv_async wins with an item: add_item
RecvItem(d) ==
    /\ pc[d] = "poll"
    /\ ~poisoned
    /\ relay # <<>>
    /\ relay' = Tail(relay)
    /\ buffer' = Append(buffer, Head(relay))
    /\ pc' = [pc EXCEPT ![d] = "ready"]
    /\ UNCHANGED <<srcPos, pullPc, pullItem, err, nextBackoff, currentInterval, elapsed,
                   backoffOn, poisoned, reason, outcome, handles, histVars>>

\* a receiver that reports the closed channel only until the terminal
\* error was returned, and pends afterwards
RecvClosed_OnlyOnce(d) ==
    /\ pc[d] = "poll"
    /\ ~poisoned
    /\ relay = <<>>
    /\ pullPc = "done"
    /\ ~cleanTerm
    /\ err' = TRUE
    /\ pc' = [pc EXCEPT ![d] = "ready"]
    /\ UNCHANGED <<pullVars, buffer, nextBackoff, currentInterval, elapsed, backoffOn,
                   poisoned, reason, outcome, handles, histVars>>

\* recv_async wins with Disconnected (queue empty, sender dropped): set_err
RecvClosed(d) ==
    /\ pc[d] = "poll"
    /\ ~poisoned
    /\ relay = <<>>
    /\ pullPc = "done"
    /\ err' = TRUE
    /\ pc' = [pc EXCEPT ![d] = "ready"]
    /\ UNCHANGED <<pullVars, buffer, nextBackoff, currentInterval, elapsed, backoffOn,
                   poisoned, reason, outcome, handles, histVars>>

\* a timer expiry taken for a closed channel
RecvTimeout_SetsErr(d) ==
    /\ pc[d] = "poll"
    /\ relay = <<>>
    /\ pullPc # "done"
    /\ err' = TRUE
    /\ pc' = [pc EXCEPT ![d] = "ready"]
    /\ UNCHANGED <<pullVars, buffer, nextBackoff, currentInterval, elapsed, backoffOn,
                   poisoned, reason, outcome, handles, histVars>>

\* the 100 ms timer wins: nothing arrived
RecvTimeout(d) ==
    /\ pc[d] = "poll"
    /\ relay = <<>>
    /\ pullPc # "done"
    /\ pc' = [pc EXCEPT ![d] = "ready"]
    /\ UNCHANGED <<pullVars, stateVars, backoffOn, poisoned, reason, outcome, handles, histVars>>

Outstanding == {h \in handles : ~h.confirmed}

\* a consume that clears next_backoff when it releases a batch
Consume_ClearsBackoff(d) ==
    /\ pc[d] = "consume"
    /\ ~poisoned
    /\ buffer' = <<>>
    /\ elapsed' = 0
    /\ pc' = [pc EXCEPT ![d] = "idle"]
    /\ gateOK' = [gateOK EXCEPT ![d] = TRUE]
    /\ stale' = [stale EXCEPT ![d] = FALSE]
    /\ IF reason[d] = "Term" /\ buffer = <<>>
       THEN /\ IF err
               THEN /\ err' = FALSE
                    /\ outcome' = [outcome EXCEPT ![d] = "error"]
                    /\ cleanTerm' = (cleanTerm \/ Outstanding = {})
                    /\ UNCHANGED poisoned
               ELSE /\ outcome' = [outcome EXCEPT ![d] = "panic"]
                    /\ poisoned' = TRUE
                    /\ UNCHANGED <<err, cleanTerm>>
            /\ UNCHANGED <<handles, sinceReturn, nextBackoff>>
       ELSE /\ handles' = handles \cup
                  {[items |-> buffer, reason |-> reason[d], elapsed |-> elapsed,
                    confirmed |-> FALSE]}
            /\ outcome' = [outcome EXCEPT ![d] = "released"]
            /\ sinceReturn' = -1
            /\ nextBackoff' = NoneDur
            /\ UNCHANGED <<err, poisoned, cleanTerm>>
    /\ UNCHANGED <<pullVars, currentInterval, backoffOn, reason, done,
                   streak, confirmedAfter, returned>>

\* after the loop: consume() under the lock, then the terminal error or a Released
Consume(d) ==
    /\ pc[d] = "consume"
    /\ ~poisoned
    /\ buffer' = <<>>
    /\ elapsed' = 0
    /\ pc' = [pc EXCEPT ![d] = "idle"]
    /\ gateOK' = [gateOK EXCEPT ![d] = TRUE]
    /\ stale' = [stale EXCEPT ![d] = FALSE]
    /\ IF reason[d] = "Term" /\ buffer = <<>>
       THEN /\ IF err
               THEN /\ err' = FALSE
                    /\ outcome' = [outcome EXCEPT ![d] = "error"]
                    /\ cleanTerm' = (cleanTerm \/ Outstanding = {})
                    /\ UNCHANGED poisoned
               ELSE /\ outcome' = [outcome EXCEPT ![d] = "panic"]
                    /\ poisoned' = TRUE
                    /\ UNCHANGED <<err, cleanTerm>>
            /\ UNCHANGED <<handles, sinceReturn>>
       ELSE /\ handles' = handles \cup
                  {[items |-> buffer, reason |-> reason[d], elapsed |-> elapsed,
                    confirmed |-> FALSE]}
            /\ outcome' = [outcome EXCEPT ![d] = "released"]
            /\ sinceReturn' = -1
            /\ UNCHANGED <<err, poisoned, cleanTerm>>
    /\ UNCHANGED <<pullVars, nextBackoff, currentInterval, backoffOn, reason, done,
                   streak, confirmedAfter, returned>>

Driver(d) ==
    \/ Call(d)
    \/ IsReady(d)
    \/ CanReceive(d)
    \/ RecvItem(d)
    \/ RecvClosed(d)
    \/ RecvTimeout(d)
    \/ Consume(d)

\* ------------------------------------------------- State, mutating parts

\* return_on_err that overwrites the pending items with the returned ones
StateReturnOnErr_Overwrite(items) ==
    /\ buffer' = items
    /\ IF backoffOn
       THEN \E dur \in RandomizedIntervals(currentInterval) :
                /\ nextBackoff' = dur
                /\ currentInterval' = IncrementInterval(currentInterval)
       ELSE UNCHANGED <<nextBackoff, currentInterval>>

\* return_on_err that puts the returned items in front of the pending ones
StateReturnOnErr_Prepends(items) ==
    /\ buffer' = items \o buffer
    /\ IF backoffOn
       THEN \E dur \in RandomizedIntervals(currentInterval) :
                /\ nextBackoff' = dur
                /\ currentInterval' = IncrementInterval(currentInterval)
       ELSE UNCHANGED <<nextBackoff, currentInterval>>

\* State::return_on_err
StateReturnOnErr(items) ==
    /\ buffer' = buffer \o items
    /\ IF backoffOn
       THEN \E dur \in RandomizedIntervals(currentInterval) :
                /\ nextBackoff' = dur
                /\ currentInterval' = IncrementInterval(currentInterval)
       ELSE UNCHANGED <<nextBackoff, currentInterval>>

\* confirm that clears next_backoff and forgets backoff.reset()
StateConfirm_NoReset ==
    IF backoffOn
    THEN nextBackoff' = NoneDur /\ UNCHANGED currentInterval
    ELSE UNCHANGED <<nextBackoff, currentInterval>>

\* State::confirm
StateConfirm ==
    IF backoffOn
    THEN nextBackoff' = NoneDur /\ currentInterval' = InitialInterval
    ELSE UNCHANGED <<nextBackoff, currentInterval>>

\* --------------------------------------------------------------- Released

\* Released::return_on_err(self): consumes the handle
ReleasedReturnOnErr(h) ==
    /\ h \in handles
    /\ ~poisoned
    /\ handles' = handles \ {h}
    /\ StateReturnOnErr(h.items)
    /\ sinceReturn' = IF backoffOn THEN 0 ELSE sinceReturn
    /\ streak' = Min(streak + 1, 2)
    /\ returned' = returned \cup ItemsOf(h.items)
    /\ stale' = [d \in Drivers |-> pc[d] = "consume"]
    /\ UNCHANGED <<pullVars, err, elapsed, backoffOn, poisoned, callVars, done, cleanTerm,
                   gateOK, confirmedAfter>>

\* Released::confirm(&self): the handle stays alive
ReleasedConfirm(h) ==
    /\ h \in handles
    /\ ~poisoned
    /\ handles' = (handles \ {h}) \cup {[h EXCEPT !.confirmed = TRUE]}
    /\ StateConfirm
    /\ done' = done \cup ItemsOf(h.items)
    /\ sinceReturn' = -1
    /\ streak' = 0
    /\ confirmedAfter' = (streak >= 1)
    /\ returned' = returned \ ItemsOf(h.items)
    /\ stale' = [d \in Drivers |-> pc[d] = "consume"]
    /\ UNCHANGED <<pullVars, buffer, err, elapsed, backoffOn, poisoned, callVars, cleanTerm,
                   gateOK>>

\* a Released goes out of scope: it has no Drop impl, the State is not touched
ReleasedDrop(h) ==
    /\ h \in handles
    /\ handles' = handles \ {h}
    /\ UNCHANGED <<pullVars, stateVars, backoffOn, poisoned, callVars, done, cleanTerm,
                   sinceReturn, gateOK, stale, streak, confirmedAfter, returned>>

\* the handle's normal end on success: confirm(), then it goes out of scope
ConfirmThenDrop(h) ==
    /\ h \in handles
    /\ ~h.confirmed
    /\ ~poisoned
    /\ handles' = handles \ {h}
    /\ StateConfirm
    /\ done' = done \cup ItemsOf(h.items)
    /\ sinceReturn' = -1
    /\ streak' = 0
    /\ confirmedAfter' = (streak >= 1)
    /\ returned' = returned \ ItemsOf(h.items)
    /\ stale' = [d \in Drivers |-> pc[d] = "consume"]
    /\ UNCHANGED <<pullVars, buffer, err, elapsed, backoffOn, poisoned, callVars, cleanTerm,
                   gateOK>>

\* ------------------------------------------------------------------ Spec

\* every handle is terminated exactly once: returned, or confirmed and dropped
Next ==
    \/ SourceYield
    \/ SendUnblocked
    \/ SourceError
    \/ Tick
    \/ \E d \in Consumer : Driver(d)
    \/ \E h \in handles : ReleasedReturnOnErr(h)
    \/ \E h \in handles : ConfirmThenDrop(h)

Spec == Init /\ [][Next]_vars

\* the same, and a handle may also be dropped with neither confirm nor return_on_err
NextDrop ==
    \/ Next
    \/ \E h \in handles : ReleasedDrop(h)

SpecDrop == Init /\ [][NextDrop]_vars

\* a consumer that confirms every batch
PullTask == SourceYield \/ SendUnblocked \/ SourceError

NextConfirming ==
    \/ PullTask
    \/ Tick
    \/ \E d \in Consumer : Driver(d)
    \/ \E h \in handles : ConfirmThenDrop(h)

\* the runtime schedules the pull task and the consumer's task, the clock
\* advances, the source ends with an error, the consumer keeps calling
\* next() and confirming
SpecConfirming ==
    /\ Init
    /\ [][NextConfirming]_vars
    /\ WF_vars(PullTask)
    /\ WF_vars(Tick)
    /\ \A d \in Consumer : WF_vars(Driver(d))
    /\ WF_vars(\E h \in handles : ConfirmThenDrop(h))

\* ================================================================ claims

\* State::new with RelaBufConfig.backoff = None
InitNoBackoff ==
    /\ srcPos = 0
    /\ pullPc = "recv"
    /\ pullItem = 0
    /\ relay = <<>>
    /\ buffer = <<>>
    /\ err = FALSE
    /\ nextBackoff = NoneDur
    /\ currentInterval = DefaultInterval
    /\ backoffOn = FALSE
    /\ elapsed = 0
    /\ poisoned = FALSE
    /\ pc = [d \in Drivers |-> "idle"]
    /\ reason = [d \in Drivers |-> "None"]
    /\ outcome = [d \in Drivers |-> "none"]
    /\ handles = {}
    /\ done = {}
    /\ cleanTerm = FALSE
    /\ sinceReturn = -1
    /\ gateOK = [d \in Drivers |-> TRUE]
    /\ stale = [d \in Drivers |-> FALSE]
    /\ streak = 0
    /\ confirmedAfter = FALSE
    /\ returned = {}

SpecNoBackoff == InitNoBackoff /\ [][Next]_vars

\* Spec, with the runtime scheduling the consumer's task whenever a call
\* to next() can take a step
SpecScheduled ==
    /\ Init
    /\ [][Next]_vars
    /\ \A d \in Consumer : WF_vars(Driver(d))

\* next(&self) returns a 'static future: two calls can be in progress at
\* the same time, each taking the lock once per step; the runs in which
\* no time passes, so that batches are released by Size and Term
NextTwo ==
    \/ PullTask
    \/ \E d \in Drivers : Driver(d)
    \/ \E h \in handles : ReleasedReturnOnErr(h)
    \/ \E h \in handles : ConfirmThenDrop(h)

SpecTwo == Init /\ [][NextTwo]_vars

\* confirm(&self) leaves the handle usable: it can be confirmed again,
\* returned, or go out of scope, at any time
NextReuse ==
    \/ PullTask
    \/ Tick
    \/ \E d \in Consumer : Driver(d)
    \/ \E h \in handles : ReleasedConfirm(h)
    \/ \E h \in handles : ReleasedReturnOnErr(h)
    \/ \E h \in handles : ReleasedDrop(h)

SpecReuse == Init /\ [][NextReuse]_vars

HandleSlots == UNION {{<<h, k>> : k \in DOMAIN h.items} : h \in handles}
InHandles(i) == Cardinality({s \in HandleSlots : s[1].items[s[2]] = i})

\* the number of places item i is in
Places(i) ==
    Occurrences(relay, i) + (IF pullItem = i THEN 1 ELSE 0) + Occurrences(buffer, i)
    + InHandles(i) + (IF i \in done THEN 1 ELSE 0)

Delivered == done \cup UNION {ItemsOf(h.items) : h \in handles}

\* C1: every item the source has yielded is in exactly one of the relay
\* (its queue or its blocked send), the pending buffer, an outstanding
\* Released batch or a confirmed batch, and no other item is anywhere; once
\* next() has returned the terminal error with no handle outstanding, the
\* confirmed items are exactly the items the source yielded.
C1_ItemConservation ==
    /\ \A i \in 1..NItems : Places(i) = (IF i <= srcPos THEN 1 ELSE 0)
    /\ cleanTerm => done = 1..srcPos

C1_Witness ==
    /\ cleanTerm
    /\ srcPos >= 2
    /\ done = 1..srcPos
    /\ confirmedAfter

\* C2: a batch released after a return_on_err that armed next_backoff = d,
\* by a call whose readiness check came after that return_on_err, is not
\* released before d has passed since the return_on_err.
C2_BackoffFromReturn ==
    [][\A d \in Drivers :
          (pc[d] = "consume" /\ outcome'[d] = "released" /\ ~stale[d]
              /\ sinceReturn >= 0 /\ nextBackoff # NoneDur)
          => sinceReturn >= nextBackoff]_vars

\* C3: a non-empty batch is released only by a call whose readiness check
\* found the backoff gate open (next_backoff unset, or elapsed since
\* last_ok_consume >= next_backoff), and never while pending is non-empty,
\* next_backoff is set and elapsed since last_ok_consume < next_backoff.
C3_BackoffGate ==
    [][\A d \in Drivers :
          (pc[d] = "consume" /\ outcome'[d] = "released" /\ buffer # <<>>)
          => (gateOK[d] /\ GateOpen(nextBackoff, elapsed))]_vars

\* C4: a confirm that follows k >= 1 consecutive return_on_err calls
\* clears next_backoff and puts the schedule back to the initial interval,
\* and the first return_on_err after it arms the initial interval.
C4_ConfirmResetsBackoff ==
    (backoffOn /\ confirmedAfter) =>
        /\ streak = 0 => (nextBackoff = NoneDur /\ currentInterval = InitialInterval)
        /\ streak = 1 => nextBackoff = InitialInterval

C4_Witness ==
    /\ backoffOn
    /\ confirmedAfter
    /\ streak = 1
    /\ nextBackoff = InitialInterval
    /\ InitialInterval # IncrementInterval(InitialInterval)

\* C5: dropping a handle with neither confirm nor return_on_err while
\* next_backoff is armed leaves the Release State as a confirm would:
\* next_backoff cleared, schedule reset.
C5_DropIsConfirm ==
    [][\A h \in handles :
          (ReleasedDrop(h) /\ ~h.confirmed /\ backoffOn /\ nextBackoff # NoneDur)
          => (nextBackoff' = NoneDur /\ currentInterval' = InitialInterval)]_vars

\* C6: at the top of next()'s polling loop the pending buffer holds at
\* most soft_cap items.
C6_PendingWithinSoftCap ==
    \A d \in Drivers : pc[d] = "ready" => Len(buffer) <= SoftCap

\* C7: no Released batch with reason Size holds more than soft_cap items.
C7_SizeBatchWithinSoftCap ==
    \A h \in handles : h.reason = "Size" => Len(h.items) <= SoftCap

\* C8: once err is set it stays set.
C8_ErrStaysSet == [][err => err']_vars

\* C9: with a source that ends with an error and a consumer that keeps
\* calling next() and confirms every batch, eventually next() returns the
\* terminal error with every yielded item delivered in a Released batch;
\* and a batch released while err is set carries reason Term.
C9_TerminalDrain ==
    /\ <>(\E d \in Consumer : outcome[d] = "error" /\ Delivered = 1..srcPos)
    /\ [][(err /\ buffer # <<>> /\ buffer' = <<>>)
            => \E h \in handles' \ handles : h.reason = "Term" /\ h.items = buffer]_vars

C9_Witness ==
    /\ pullPc = "done"
    /\ relay = <<>>
    /\ srcPos >= 2
    /\ \E h \in handles : h.reason = "Term" /\ h.items # <<>>

\* C10: when next() returns the terminal error the pending buffer is
\* empty and the relay is closed and empty.
C10_ErrorOnlyAfterDrain ==
    [][\A d \in Drivers :
          (pc[d] = "consume" /\ outcome'[d] = "error")
          => (buffer = <<>> /\ buffer' = <<>> /\ relay' = <<>> /\ pullItem' = 0
                /\ pullPc' = "done")]_vars

C10_Witness ==
    /\ \E d \in Consumer : outcome[d] = "error"
    /\ done # {}
    /\ buffer = <<>>
    /\ relay = <<>>

\* items in flight and unconfirmed: relay, pending, outstanding batches
InFlight ==
    Len(relay) + (IF pullItem # 0 THEN 1 ELSE 0) + Len(buffer)
    + Cardinality({s \in HandleSlots : ~s[1].confirmed})

\* C11: while hard_cap items are in flight and unconfirmed the pull task
\* is not awaiting the pull source.
C11_SourceUnawaitedAtHardCap ==
    InFlight >= HardCap => pullPc # "recv"

\* what the channel holds, the blocked send last
InChannel == relay \o (IF pullItem # 0 THEN <<pullItem>> ELSE <<>>)

\* C12: the relay queue never holds more than hard_cap items; a full queue
\* blocks the pull task, which keeps the item it obtained (the channel
\* holds, in source order, exactly the items not yet received), and the
\* source is not invoked again while the send is blocked.
C12_RelayBlocksWhenFull ==
    /\ [](/\ Len(relay) <= HardCap
          /\ (pullPc = "send") = (pullItem # 0)
          /\ \A k \in DOMAIN InChannel : InChannel[k] = srcPos - Len(InChannel) + k)
    /\ [][(pullPc # "send" /\ pullPc' = "send") => Len(relay) = HardCap /\ relay' = relay]_vars
    /\ [][pullPc = "send" => srcPos' = srcPos]_vars
    /\ [][(pullPc = "send" /\ pullPc' # "send") => relay' = Append(relay, pullItem)]_vars

\* the consumer never called next(): the source yielded hard_cap + 1 items
C12_Witness ==
    /\ pullPc = "send"
    /\ pullItem = HardCap + 1
    /\ Len(relay) = HardCap
    /\ \A d \in Drivers : pc[d] = "idle" /\ outcome[d] = "none"

\* the items of a sequence are in source order
InSourceOrder(s) == \A i, j \in DOMAIN s : i < j => s[i] < s[j]

\* the items of a sequence that return_on_err never put back
NeverReturned(s) == SelectSeq(s, LAMBDA x : x \notin returned)

\* C13 as stated: in every Released batch the items are in source order,
\* whatever releases, confirms and return_on_err calls came before.
C13_BatchInSourceOrder ==
    \A h \in handles : InSourceOrder(h.items)

\* C13: in every Released batch the items that return_on_err never put
\* back are in source order among themselves; a batch without returned
\* items is in source order.
C13_FreshItemsInSourceOrder ==
    \A h \in handles : InSourceOrder(NeverReturned(h.items))

\* a batch with a returned item between two items that were never returned
C13_Witness ==
    \E h \in handles :
        /\ Len(NeverReturned(h.items)) >= 2
        /\ Len(NeverReturned(h.items)) < Len(h.items)

\* C14: return_on_err leaves pending as its previous content followed by
\* the returned items in batch order; consume hands out the whole pending
\* sequence front to back and leaves it empty.
C14_ReturnAppendsConsumeDrains ==
    /\ [][\A h \in handles :
              (h \notin handles' /\ done' = done /\ h.items # <<>>)
              => buffer' = buffer \o h.items]_vars
    /\ [][\A d \in Drivers :
              (pc[d] = "consume" /\ pc'[d] = "idle")
              => /\ buffer' = <<>>
                 /\ outcome'[d] = "released"
                    => \E h \in handles' \ handles : h.items = buffer]_vars

\* pending holds an item received from the relay followed by a returned one
C14_Witness ==
    /\ Len(buffer) >= 2
    /\ buffer[1] \notin returned
    /\ buffer[Len(buffer)] \in returned

\* the rule order of the claim, first match wins
RuleOrder(buf, e, nb, el) ==
    CASE buf = <<>> /\ e -> "Term"
      [] buf = <<>> /\ ~e -> "None"
      [] buf # <<>> /\ nb # NoneDur /\ el < nb -> "None"
      [] OTHER -> IF e THEN "Term"
                  ELSE IF Len(buf) >= SoftCap THEN "Size"
                  ELSE IF el >= ReleaseAfter THEN "Time"
                  ELSE "None"

\* the step of driver d releases a batch
Releases(d) == pc[d] = "consume" /\ pc'[d] = "idle" /\ outcome'[d] = "released"

\* every readiness check answers by the rule order
ReadinessByRuleOrder ==
    [][\A d \in Drivers :
           (pc[d] = "ready" /\ pc'[d] # "ready")
           => LET r == RuleOrder(buffer, err, nextBackoff, elapsed)
              IN  IF r = "None" THEN pc'[d] = "check"
                  ELSE pc'[d] = "consume" /\ reason'[d] = r]_vars

\* C15: every readiness check answers by the fixed rule order (Term or
\* none on empty pending, none while the backoff has not elapsed, then
\* Term, Size, Time, none), so no batch is labelled Size or Time with err
\* set, and no batch labelled Time holds soft_cap or more items.
C15_ReasonByRuleOrder ==
    /\ ReadinessByRuleOrder
    /\ [][\A d \in Drivers :
              Releases(d) => /\ err => reason[d] = "Term"
                             /\ Len(buffer) >= SoftCap => reason[d] # "Time"]_vars

\* C16: next_backoff and the backoff schedule change only in a step that
\* ends a handle (return_on_err or confirm); every step of next() -
\* is_ready, can_receive, add_item, set_err, consume - leaves both
\* unchanged, so releasing a batch does not clear an armed next_backoff.
C16_BackoffFrame ==
    /\ [][(nextBackoff' # nextBackoff \/ currentInterval' # currentInterval)
          => \E h \in handles : h \notin handles']_vars
    /\ [][(pc' # pc \/ err' # err \/ elapsed' # elapsed)
          => (nextBackoff' = nextBackoff /\ currentInterval' = currentInterval)]_vars

\* a batch was released while next_backoff was armed, and it still is
C16_Witness ==
    /\ \E d \in Drivers : pc[d] = "idle" /\ outcome[d] = "released"
    /\ nextBackoff # NoneDur
    /\ sinceReturn = -1

\* C17: once confirm() was called on a handle its items are out of the
\* protocol: they are never in pending again, and the step that ends a
\* confirmed handle leaves pending and the backoff as they were.
C17_ConfirmEndsHandle ==
    /\ [](ItemsOf(buffer) \cap done = {})
    /\ [][\A h \in handles :
              (h.confirmed /\ h \notin handles')
              => /\ buffer' = buffer
                 /\ nextBackoff' = nextBackoff
                 /\ currentInterval' = currentInterval]_vars

\* C18: with no backoff configured next_backoff is None in every reachable
\* state, and a readiness check that finds returned items pending answers
\* with a release at once, whatever the reason of the original release.
C18_ReturnedRetriedAtOnce ==
    /\ [](~backoffOn /\ nextBackoff = NoneDur)
    /\ [][\A d \in Drivers :
              (pc[d] = "ready" /\ pc'[d] # "ready" /\ ItemsOf(buffer) \cap returned # {})
              => pc'[d] = "consume"]_vars

\* C19: once next() has returned the terminal error with pending empty,
\* the relay closed and no handle outstanding, no batch is released any
\* more, and every later call to next() ends by returning the terminal
\* error.
C19_TerminalAbsorbing ==
    /\ [](cleanTerm => /\ buffer = <<>> /\ relay = <<>> /\ pullPc = "done"
                       /\ handles = {}
                       /\ \A d \in Consumer : outcome[d] \in {"none", "error"})
    /\ \A d \in Consumer :
           (cleanTerm /\ pc[d] # "idle") ~> (pc[d] = "idle" /\ outcome[d] = "error")

\* a call made after the terminal error is about to return
C19_Witness ==
    \E d \in Consumer : cleanTerm /\ pc[d] = "consume" /\ reason[d] = "Term"

\* C20: whatever the interleaving of two calls to next() and of handle
\* operations, no call returns a Released with no items, and the terminal
\* error path always finds a stored error (its unwrap never panics).
C20_ReadinessHoldsAtConsume ==
    /\ \A h \in handles : h.items # <<>>
    /\ \A d \in Drivers : outcome[d] # "panic"

====
